---- MODULE Spec2Model ----
(***************************************************************************)
(* Model of src/app.py: the per-ticket loop that rebuilds a ticket's       *)
(* status timeline from its changelog, accumulates the seconds spent in    *)
(* each status, converts them to minutes and evaluates the SLA.            *)
(*                                                                         *)
(* Text is a tuple of one-character strings, so that str.upper() and the   *)
(* substring test `key in priority_name` are computed, not assumed.        *)
(* A timestamp text is a tuple <<minutes, seconds>> read as a clock        *)
(* offset from 2026-01-17T00:00Z; parser.parse turns it into seconds and   *)
(* raises when the seconds field is not below 60.  Python's None is the    *)
(* empty tuple for text and timestamps (both are falsy in the code).       *)
(*                                                                         *)
(* Times are whole seconds.  The batch holds one ticket: the loop body     *)
(* shares nothing between tickets but rows and now, and an uncaught        *)
(* parser.parse error ends the script before the CSV is written.           *)
(***************************************************************************)
EXTENDS Integers, Sequences, FiniteSets, TLC

\* ------------------------------------------------------------------ bounds
MaxHistories == 2

\* ------------------------------------------------------------------- text
None == <<>>

LowerLetters ==
  <<"a","b","c","d","e","f","g","h","i","j","k","l","m",
    "n","o","p","q","r","s","t","u","v","w","x","y","z">>

UpperLetters ==
  <<"A","B","C","D","E","F","G","H","I","J","K","L","M",
    "N","O","P","Q","R","S","T","U","V","W","X","Y","Z">>

UpperChar(c) ==
  IF \E i \in DOMAIN LowerLetters : LowerLetters[i] = c
  THEN UpperLetters[CHOOSE i \in DOMAIN LowerLetters : LowerLetters[i] = c]
  ELSE c

Upper(s) == [i \in DOMAIN s |-> UpperChar(s[i])]

\* `key in text` for Python strings
Contains(key, text) ==
  \E i \in 0..(Len(text) - Len(key)) : SubSeq(text, i + 1, i + Len(key)) = key

OPEN == <<"O","P","E","N">>
WORK_IN_PROGRESS ==
  <<"W","O","R","K"," ","I","N"," ","P","R","O","G","R","E","S","S">>
IN_REVIEW == <<"I","N"," ","R","E","V","I","E","W">>
COMPLETED == <<"C","O","M","P","L","E","T","E","D">>
CANCELLED == <<"C","A","N","C","E","L","L","E","D">>
CANCELED == <<"C","A","N","C","E","L","E","D">>
CLOSED == <<"C","L","O","S","E","D">>

VALID_STATUSES ==
  {OPEN, WORK_IN_PROGRESS, IN_REVIEW, COMPLETED, CANCELLED, CANCELED, CLOSED}

FINAL_STATUSES == {COMPLETED, CLOSED, CANCELLED, CANCELED}

\* -------------------------------------------------------------------- SLA
HIGHEST == <<"H","I","G","H","E","S","T">>
HIGH == <<"H","I","G","H">>
MEDIUM == <<"M","E","D","I","U","M">>
LOW == <<"L","O","W">>
LOWEST == <<"L","O","W","E","S","T">>

\* the keys of SLA_MINUTES in the order a dict iterates them (insertion order)
SLA_KEYS_Reordered == <<HIGH, HIGHEST, MEDIUM, LOW, LOWEST>>

SLA_KEYS == <<HIGHEST, HIGH, MEDIUM, LOW, LOWEST>>

SLA_MINUTES(key) ==
  CASE key = HIGHEST -> 2 * 60
    [] key = HIGH    -> 4 * 60
    [] key = MEDIUM  -> 24 * 60
    [] key = LOW     -> 48 * 60
    [] key = LOWEST  -> 60 * 60

\* the value of an int-valued variable that holds Python's None
NoMinutes == -1

get_sla_minutes(priority_name) ==
  IF priority_name = None
  THEN NoMinutes
  ELSE LET text == Upper(priority_name)
           hits == {i \in DOMAIN SLA_KEYS : Contains(SLA_KEYS[i], text)}
       IN IF hits = {}
          THEN NoMinutes
          ELSE SLA_MINUTES(SLA_KEYS[CHOOSE i \in hits : \A j \in hits : i <= j])

\* lines 137-146: the verdict and the breach for a budget and a time to resolution
Verdict_NonStrict(sla, ttr) ==
  IF sla = NoMinutes
  THEN [sla_status |-> "None", time_breached_min |-> 0]
  ELSE IF ttr >= sla
       THEN [sla_status |-> "Breached", time_breached_min |-> ttr - sla]
       ELSE [sla_status |-> "Met", time_breached_min |-> 0]

Verdict(sla, ttr) ==
  IF sla = NoMinutes
  THEN [sla_status |-> "None", time_breached_min |-> 0]
  ELSE IF ttr > sla
       THEN [sla_status |-> "Breached", time_breached_min |-> ttr - sla]
       ELSE [sla_status |-> "Met", time_breached_min |-> 0]

\* ------------------------------------------------------------- timestamps
\* dateutil's parser.parse: raises on a seconds field outside 0..59
CanParse(text) == Len(text) = 2 /\ text[2] \in 0..59

Parse(text) == text[1] * 60 + text[2]

\* ------------------------------------------------------ lines 87-97
\* the (history, item) pairs in the order the nested loops visit them
RECURSIVE ItemsOf(_, _)
ItemsOf(created, items) ==
  IF items = <<>>
  THEN <<>>
  ELSE <<[created |-> created, item |-> Head(items)]>> \o ItemsOf(created, Tail(items))

RECURSIVE Visits(_)
Visits(histories) ==
  IF histories = <<>>
  THEN <<>>
  ELSE ItemsOf(Head(histories).created, Head(histories).items) \o Visits(Tail(histories))

\* line 90: the items whose history timestamp gets parsed
IsStatusItem(item) == item.field = "status"

StatusVisits(histories) == SelectSeq(Visits(histories), LAMBDA v : IsStatusItem(v.item))

\* position of the first visit whose parser.parse raises, 0 when none does
FirstRaise(visits) ==
  LET bad == {i \in DOMAIN visits : ~CanParse(visits[i].created)}
  IN IF bad = {} THEN 0 ELSE CHOOSE i \in bad : \A j \in bad : i <= j

Change(v) ==
  [from |-> IF v.item.fromString # None THEN Upper(v.item.fromString) ELSE None,
   to   |-> Upper(v.item.toString),
   time |-> Parse(v.created)]

\* status_changes as appended by lines 88-95, up to (not including) a raise
Collected(histories) ==
  LET visits == StatusVisits(histories)
      stop   == FirstRaise(visits)
      upto   == IF stop = 0 THEN Len(visits) ELSE stop - 1
  IN [i \in 1..upto |-> Change(visits[i])]

CollectRaises(histories) == FirstRaise(StatusVisits(histories)) # 0

\* list.sort(key = time): a stable sort, as insertion after every element
\* whose key is not greater
RECURSIVE InsertByTime_Unstable(_, _)
InsertByTime_Unstable(sorted, x) ==
  IF sorted = <<>>
  THEN <<x>>
  ELSE IF Head(sorted).time < x.time
       THEN <<Head(sorted)>> \o InsertByTime_Unstable(Tail(sorted), x)
       ELSE <<x>> \o sorted

RECURSIVE InsertByTime(_, _)
InsertByTime(sorted, x) ==
  IF sorted = <<>>
  THEN <<x>>
  ELSE IF Head(sorted).time <= x.time
       THEN <<Head(sorted)>> \o InsertByTime(Tail(sorted), x)
       ELSE <<x>> \o sorted

RECURSIVE SortByTime(_)
SortByTime(seq) ==
  IF seq = <<>>
  THEN <<>>
  ELSE InsertByTime(SortByTime(SubSeq(seq, 1, Len(seq) - 1)), seq[Len(seq)])

\* ----------------------------------------------------- lines 99-112
InitialStatus_Current(changes, status_name) == Upper(status_name)

InitialStatus(changes, status_name) ==
  IF changes # <<>> /\ changes[1].from # None
  THEN changes[1].from
  ELSE Upper(status_name)

CreationEntry(initial_status, created) ==
  IF initial_status \in VALID_STATUSES
  THEN <<[status |-> initial_status, time |-> created]>>
  ELSE <<>>

RECURSIVE ChangeEntries(_)
ChangeEntries(changes) ==
  IF changes = <<>>
  THEN <<>>
  ELSE (IF Head(changes).to \in VALID_STATUSES
        THEN <<[status |-> Head(changes).to, time |-> Head(changes).time]>>
        ELSE <<>>) \o ChangeEntries(Tail(changes))

\* the timeline as appended by lines 105-110, before line 112 sorts it
Emitted(changes, status_name, created) ==
  CreationEntry(InitialStatus(changes, status_name), created) \o ChangeEntries(changes)

\* ---------------------------------------------------- lines 114-133
\* line 85
Boundary(resolutiondate, clock) ==
  IF resolutiondate # None THEN Parse(resolutiondate) ELSE clock

\* line 118
SegmentEnd_Resolution(tl, i, resolution) == resolution

SegmentEnd(tl, i, resolution) ==
  IF i + 1 <= Len(tl) THEN tl[i + 1].time ELSE resolution

\* lines 120-121
Skipped_Never(status) == FALSE

Skipped(status) == status \in FINAL_STATUSES

\* line 123
Counted_Always(start, end) == TRUE

Counted(start, end) == end > start

\* line 124: (end - start).total_seconds()
Elapsed_WholeMinutes(start, end) == ((end - start) \div 60) * 60

Elapsed(start, end) == end - start

\* defaultdict(float): d[k] += x
Add(d, k, x) ==
  IF k \in DOMAIN d THEN [d EXCEPT ![k] = @ + x] ELSE d @@ (k :> x)

\* dict.get(k, 0)
Get(d, k) == IF k \in DOMAIN d THEN d[k] ELSE 0

RECURSIVE Accumulate(_, _, _)
Accumulate(tl, n, resolution) ==
  IF n = 0
  THEN <<>>
  ELSE LET d      == Accumulate(tl, n - 1, resolution)
           status == tl[n].status
           start  == tl[n].time
           end    == SegmentEnd(tl, n, resolution)
       IN IF Skipped(status)
          THEN d
          ELSE IF Counted(start, end) THEN Add(d, status, Elapsed(start, end)) ELSE d

\* int(x / 60): true division, then truncation toward zero
Minutes(seconds) ==
  IF seconds >= 0 THEN seconds \div 60 ELSE -((-seconds) \div 60)

\* ------------------------------------------------- the tickets fetched
\* lines 64-68: what jira.enhanced_search_issues can return.  Text as Jira
\* sends it (mixed case); "On Hold" is a status outside VALID_STATUSES.
T(m, s) == <<m, s>>

Open_ == <<"O","p","e","n">>
InReview_ == <<"I","n"," ","R","e","v","i","e","w">>
WorkInProgress_ ==
  <<"W","o","r","k"," ","i","n"," ","P","r","o","g","r","e","s","s">>
Completed_ == <<"C","o","m","p","l","e","t","e","d">>
Closed_ == <<"C","l","o","s","e","d">>
OnHold_ == <<"O","n"," ","H","o","l","d">>

StatusItem(from, to) == [field |-> "status", fromString |-> from, toString |-> to]

AssigneeItem == [field |-> "assignee", fromString |-> None, toString |-> <<"a","n","n">>]

HistoryPool ==
  { [created |-> T(90, 0),  items |-> <<StatusItem(Open_, WorkInProgress_)>>],
    [created |-> T(300, 0), items |-> <<StatusItem(WorkInProgress_, Completed_)>>],
    [created |-> T(0, 30),  items |-> <<StatusItem(Open_, Open_)>>],
    [created |-> T(90, 0),  items |-> <<StatusItem(Completed_, Open_)>>],
    [created |-> T(1, 0),   items |-> <<StatusItem(OnHold_, InReview_)>>],
    [created |-> T(0, 75),  items |-> <<AssigneeItem>>],
    [created |-> T(0, 75),  items |-> <<StatusItem(Open_, Closed_)>>],
    [created |-> T(0, 0),   items |-> <<AssigneeItem, StatusItem(None, OnHold_)>>] }

RECURSIVE SeqsUpTo(_, _)
SeqsUpTo(S, n) ==
  IF n = 0
  THEN {<<>>}
  ELSE LET shorter == SeqsUpTo(S, n - 1)
       IN shorter \cup {Append(q, x) : q \in shorter, x \in S}

CreatedTexts == {T(0, 0), T(1, 0), T(0, 75)}

ResolvedTexts == {None, T(1, 0), T(300, 0), T(330, 0), T(0, 75)}

StatusNames == {Open_, InReview_, Completed_, OnHold_}

PriorityNames ==
  { None,
    <<"H","i","g","h","e","s","t">>,
    <<"H","i","g","h">>,
    <<"L","o","w","e","s","t">>,
    <<"U","r","g","e","n","t">> }

\* line 73: the processing time, in seconds
Clocks == {30 * 60, 3000 * 60}

Issues ==
  [created : CreatedTexts, resolutiondate : ResolvedTexts, status : StatusNames,
   priority : PriorityNames, histories : SeqsUpTo(HistoryPool, MaxHistories)]

\* a ticket is not resolved after the run that reads it
Fetched(issue, clock) ==
  CanParse(issue.resolutiondate) => Parse(issue.resolutiondate) <= clock

\* ------------------------------------------------------------------ state
VARIABLES
  issues, now, idx, pc, rows,
  created_time, resolution_time, status_changes, timeline, time_in_status,
  open_min, wip_min, review_min, completed_min, cancelled_min, closed_min,
  time_to_resolution_min, sla_minutes, sla_status, time_breached_min

durations ==
  <<time_in_status, open_min, wip_min, review_min, completed_min, cancelled_min,
    closed_min, time_to_resolution_min>>

verdict == <<sla_minutes, sla_status, time_breached_min>>

vars ==
  <<issues, now, idx, pc, rows, created_time, resolution_time, status_changes,
    timeline, durations, verdict>>

Init ==
  /\ \E issue \in Issues, clock \in Clocks :
       /\ Fetched(issue, clock)
       /\ issues = <<issue>>
       /\ now = clock
  /\ idx = 0
  /\ pc = "loop"
  /\ rows = <<>>
  /\ created_time = 0
  /\ resolution_time = 0
  /\ status_changes = <<>>
  /\ timeline = <<>>
  /\ time_in_status = <<>>
  /\ open_min = 0
  /\ wip_min = 0
  /\ review_min = 0
  /\ completed_min = 0
  /\ cancelled_min = 0
  /\ closed_min = 0
  /\ time_to_resolution_min = 0
  /\ sla_minutes = NoMinutes
  /\ sla_status = "None"
  /\ time_breached_min = 0

\* lines 78-177: one pass of the loop body that reaches rows.append
ProcessIssue ==
  /\ pc = "loop"
  /\ idx < Len(issues)
  /\ LET fields == issues[idx + 1]
     IN /\ CanParse(fields.created)
        /\ fields.resolutiondate # None => CanParse(fields.resolutiondate)
        /\ ~CollectRaises(fields.histories)
        /\ \E created \in {Parse(fields.created)},
              resolution \in {Boundary(fields.resolutiondate, now)},
              changes \in {SortByTime(Collected(fields.histories))} :
           \E tl \in {SortByTime(Emitted(changes, fields.status, created))} :
           \E d \in {Accumulate(tl, Len(tl), resolution)} :
           LET o          == Minutes(Get(d, OPEN))
               w          == Minutes(Get(d, WORK_IN_PROGRESS))
               r          == Minutes(Get(d, IN_REVIEW))
               co         == Minutes(Get(d, COMPLETED))
               ca         == Minutes(Get(d, CANCELLED) + Get(d, CANCELED))
               cl         == Minutes(Get(d, CLOSED))
               ttr        == o + w + r
               sla        == get_sla_minutes(fields.priority)
               v          == Verdict(sla, ttr)
           IN /\ created_time' = created
              /\ resolution_time' = resolution
              /\ status_changes' = changes
              /\ timeline' = tl
              /\ time_in_status' = d
              /\ open_min' = o
              /\ wip_min' = w
              /\ review_min' = r
              /\ completed_min' = co
              /\ cancelled_min' = ca
              /\ closed_min' = cl
              /\ time_to_resolution_min' = ttr
              /\ sla_minutes' = sla
              /\ sla_status' = v.sla_status
              /\ time_breached_min' = v.time_breached_min
              /\ rows' = Append(rows,
                   [Priority |-> fields.priority, Created |-> fields.created,
                    Resolved |-> fields.resolutiondate,
                    OPEN |-> o, WORK_IN_PROGRESS |-> w, IN_REVIEW |-> r,
                    COMPLETED |-> co, CANCELLED |-> ca, CLOSED |-> cl,
                    TimeToResolution |-> ttr, SlaStatus |-> v.sla_status,
                    TimeBreached |-> v.time_breached_min])
  /\ idx' = idx + 1
  /\ UNCHANGED <<issues, now, pc>>

\* lines 84-95: parser.parse raises; nothing catches it, the script ends
ProcessIssueRaises ==
  /\ pc = "loop"
  /\ idx < Len(issues)
  /\ LET fields == issues[idx + 1]
         c_ok   == CanParse(fields.created)
         r_ok   == fields.resolutiondate # None => CanParse(fields.resolutiondate)
     IN /\ ~c_ok \/ ~r_ok \/ CollectRaises(fields.histories)
        /\ created_time' = IF c_ok THEN Parse(fields.created) ELSE created_time
        /\ resolution_time' =
             IF c_ok /\ r_ok THEN Boundary(fields.resolutiondate, now)
             ELSE resolution_time
        /\ status_changes' =
             IF c_ok /\ r_ok THEN Collected(fields.histories) ELSE status_changes
  /\ idx' = idx + 1
  /\ pc' = "raised"
  /\ UNCHANGED <<issues, now, rows, timeline, durations, verdict>>

\* lines 182-188: the rows go to the CSV file
ExportCsv ==
  /\ pc = "loop"
  /\ idx = Len(issues)
  /\ pc' = "exported"
  /\ UNCHANGED <<issues, now, idx, rows, created_time, resolution_time,
                 status_changes, timeline, durations, verdict>>

Next == ProcessIssue \/ ProcessIssueRaises \/ ExportCsv

Spec == Init /\ [][Next]_vars

\* ================================================================ claims
Ticket == issues[1]

\* the loop body reached rows.append for the ticket
Processed == rows # <<>>

NonTerminal == {OPEN, WORK_IN_PROGRESS, IN_REVIEW}

\* the end of the segment that starts at timeline entry i, as the
\* specification states it: the next entry's time, else the resolution
\* timestamp if the ticket has one, else the processing time
SegmentStop(i) ==
  IF i < Len(timeline) THEN timeline[i + 1].time
  ELSE IF Ticket.resolutiondate # None THEN Parse(Ticket.resolutiondate) ELSE now

SegmentLength(i) ==
  IF SegmentStop(i) > timeline[i].time THEN SegmentStop(i) - timeline[i].time ELSE 0

\* seconds of the positive-length segments among the first n whose starting
\* entry carries status s
RECURSIVE SecondsIn(_, _)
SecondsIn(s, n) ==
  IF n = 0
  THEN 0
  ELSE SecondsIn(s, n - 1) + (IF timeline[n].status = s THEN SegmentLength(n) ELSE 0)

\* C1: no terminal status contributes positive minutes: the COMPLETED,
\* CANCELLED and CLOSED minute fields of the row are 0 and time_in_status
\* holds no positive entry for a terminal status.
C1_TerminalExclusion ==
  Processed =>
    /\ completed_min = 0 /\ cancelled_min = 0 /\ closed_min = 0
    /\ rows[1].COMPLETED = 0 /\ rows[1].CANCELLED = 0 /\ rows[1].CLOSED = 0
    /\ \A s \in FINAL_STATUSES : Get(time_in_status, s) <= 0

\* a terminal entry whose segment lasts at least a minute
C1_Witness ==
  /\ Processed
  /\ \E i \in DOMAIN timeline :
       timeline[i].status \in FINAL_STATUSES /\ SegmentLength(i) >= 60

\* C2: a ticket whose priority text is "Lowest" in any letter case gets the
\* LOWEST budget of 3600 minutes and is Breached exactly when its time to
\* resolution exceeds 3600 minutes.
C2_LowestBudget ==
  (Processed /\ Upper(Ticket.priority) = LOWEST) =>
    /\ sla_minutes = 3600
    /\ (sla_status = "Breached") <=> (time_to_resolution_min > 3600)

\* C3: a priority text containing HIGHEST (and so HIGH) after upper-casing
\* resolves to the HIGHEST budget, 120 minutes, not the HIGH budget.
C3_HighestPrecedence ==
  (Processed /\ Contains(HIGHEST, Upper(Ticket.priority))) => sla_minutes = 120

C3_Witness ==
  /\ Processed
  /\ Contains(HIGHEST, Upper(Ticket.priority))
  /\ Contains(HIGH, Upper(Ticket.priority))
  /\ sla_status = "Breached"

\* times to resolution the ticket could have had instead, at or above its own
C4_Raised ==
  {time_to_resolution_min + k : k \in {0, 1, 30, 60, 3000}} \cup
  {m \in {sla_minutes, sla_minutes + 1} : m >= time_to_resolution_min}

\* C4: with a budget found, the verdict is Breached exactly when the time to
\* resolution is strictly greater than the budget, the breach is the excess
\* (0 when Met), and raising the time to resolution with the budget fixed
\* never turns Breached into Met and keeps the breach equal to the excess.
C4_SlaMonotone ==
  (Processed /\ sla_minutes # NoMinutes) =>
    /\ sla_status \in {"Breached", "Met"}
    /\ (sla_status = "Breached") <=> (time_to_resolution_min > sla_minutes)
    /\ time_breached_min =
         IF time_to_resolution_min > sla_minutes
         THEN time_to_resolution_min - sla_minutes ELSE 0
    /\ rows[1].SlaStatus = sla_status
    /\ rows[1].TimeBreached = time_breached_min
    /\ \A later \in C4_Raised :
         LET v == Verdict(sla_minutes, later)
         IN /\ sla_status = "Breached" => v.sla_status = "Breached"
            /\ later > sla_minutes =>
                 v.sla_status = "Breached" /\ v.time_breached_min = later - sla_minutes
            /\ later <= sla_minutes =>
                 v.sla_status = "Met" /\ v.time_breached_min = 0

\* the HIGH budget of 240 minutes exceeded by 60
C4_Witness ==
  /\ Processed
  /\ sla_minutes = 240
  /\ time_to_resolution_min = 300
  /\ sla_status = "Breached"
  /\ time_breached_min = 60

\* C5: every per-status minutes value, the time to resolution and the breach
\* minutes are >= 0 for every input.
C5_NonNegative ==
  /\ \A s \in DOMAIN time_in_status : time_in_status[s] >= 0
  /\ open_min >= 0 /\ wip_min >= 0 /\ review_min >= 0
  /\ completed_min >= 0 /\ cancelled_min >= 0 /\ closed_min >= 0
  /\ time_to_resolution_min >= 0
  /\ time_breached_min >= 0

\* a non-terminal last entry timestamped after the resolution boundary, behind
\* an entry timestamped before the creation time
C5_Witness ==
  /\ Processed
  /\ timeline # <<>>
  /\ timeline[Len(timeline)].status \in NonTerminal
  /\ timeline[Len(timeline)].time >= resolution_time + 60
  /\ timeline[1].time < created_time

\* the ticket of the worked example: created at t0 in status OPEN, OPEN to
\* WORK IN PROGRESS at t0+90min, WORK IN PROGRESS to COMPLETED at t0+300min,
\* resolved at t0+300min
C6_Example ==
  /\ Ticket.created = T(0, 0)
  /\ Ticket.resolutiondate = T(300, 0)
  /\ Ticket.histories =
       << [created |-> T(90, 0),  items |-> <<StatusItem(Open_, WorkInProgress_)>>],
          [created |-> T(300, 0), items |-> <<StatusItem(WorkInProgress_, Completed_)>>] >>

\* the unresolved ticket with no status change, in IN REVIEW, read 30 minutes
\* after its creation
C6_Unresolved ==
  /\ Ticket.created = T(0, 0)
  /\ Ticket.resolutiondate = None
  /\ Ticket.status = InReview_
  /\ Ticket.histories = <<>>
  /\ now = 30 * 60

\* C6: for a non-empty timeline each status's minutes are the seconds of the
\* positive-length segments starting at an entry with that non-terminal
\* status, summed and then divided by 60 with truncation; the last segment
\* ends at the resolution timestamp if set, else at the processing time; the
\* time to resolution is OPEN + WORK IN PROGRESS + IN REVIEW minutes.
C6_Durations ==
  (Processed /\ timeline # <<>>) =>
    /\ open_min = SecondsIn(OPEN, Len(timeline)) \div 60
    /\ wip_min = SecondsIn(WORK_IN_PROGRESS, Len(timeline)) \div 60
    /\ review_min = SecondsIn(IN_REVIEW, Len(timeline)) \div 60
    /\ time_to_resolution_min = open_min + wip_min + review_min
    /\ rows[1].OPEN = open_min /\ rows[1].WORK_IN_PROGRESS = wip_min
    /\ rows[1].IN_REVIEW = review_min
    /\ rows[1].TimeToResolution = time_to_resolution_min
    /\ C6_Example =>
         /\ open_min = 90 /\ wip_min = 210 /\ completed_min = 0
         /\ time_to_resolution_min = 300
    /\ C6_Unresolved =>
         /\ timeline = <<[status |-> IN_REVIEW, time |-> 0]>>
         /\ review_min = 30 /\ open_min = 0 /\ wip_min = 0
         /\ time_to_resolution_min = 30

\* the worked example
C6_Witness ==
  /\ Processed
  /\ C6_Example
  /\ open_min = 90
  /\ wip_min = 210

\* the initial status of lines 100-103, from the ticket and the sorted changes
C7_InitialRecognized ==
  (IF status_changes # <<>> /\ status_changes[1].from # None
   THEN status_changes[1].from
   ELSE Upper(Ticket.status)) \in VALID_STATUSES

\* C7 as stated: whenever the timeline is non-empty its first entry's
\* timestamp is the creation time.
C7_FirstIsCreation ==
  (Processed /\ timeline # <<>>) => timeline[1].time = created_time

\* C7 as amended: when the initial status is recognized and no entry of the
\* timeline is timestamped before the creation time, the first entry's
\* timestamp is the creation time.
C7_FirstIsCreationWhenEmitted ==
  (/\ Processed
   /\ C7_InitialRecognized
   /\ \A c \in {status_changes[i] : i \in DOMAIN status_changes} :
        c.to \in VALID_STATUSES => c.time >= created_time)
  => (timeline # <<>> /\ timeline[1].time = created_time
      /\ timeline[1].time = Parse(Ticket.created))

\* the current status is unrecognized, the initial status comes from the
\* earliest change, and a later change follows the creation entry
C7_Witness ==
  /\ Processed
  /\ C7_InitialRecognized
  /\ Upper(Ticket.status) \notin VALID_STATUSES
  /\ Len(timeline) >= 2
  /\ timeline[1].time = created_time
  /\ timeline[2].time > created_time

EntriesAt(seq, t) == SelectSeq(seq, LAMBDA e : e.time = t)

\* C8: the timeline's timestamps are non-decreasing and entries with equal
\* timestamps keep their emission order: the creation entry, then the status
\* changes in the order the sort of status_changes left them.
C8_StableOrder ==
  Processed =>
    /\ \A i \in 1..(Len(timeline) - 1) : timeline[i].time <= timeline[i + 1].time
    /\ \A i \in 1..(Len(status_changes) - 1) :
         status_changes[i].time <= status_changes[i + 1].time
    /\ Len(timeline) = Len(Emitted(status_changes, Ticket.status, created_time))
    /\ \A t \in {timeline[i].time : i \in DOMAIN timeline} :
         EntriesAt(timeline, t) =
           EntriesAt(Emitted(status_changes, Ticket.status, created_time), t)

\* the creation entry shares its timestamp with a change to another status
\* and an earlier change precedes both
C8_Witness ==
  /\ Processed
  /\ Len(timeline) = 3
  /\ timeline[1].time < timeline[2].time
  /\ timeline[2].time = timeline[3].time
  /\ timeline[2].time = created_time
  /\ timeline[2].status # timeline[3].status

Malformed(text) == text # None /\ ~CanParse(text)

\* C9: a malformed timestamp on the creation time, the resolution time or
\* any history entry, with or without a status item, makes the ticket's
\* processing fail: no row is produced for the ticket.
C9_MalformedFails ==
  (\/ Malformed(Ticket.created)
   \/ Malformed(Ticket.resolutiondate)
   \/ \E i \in DOMAIN Ticket.histories : Malformed(Ticket.histories[i].created))
  => rows = <<>>

C10_Terminals == {i \in DOMAIN timeline : timeline[i].status \in FINAL_STATUSES}

C10_First == CHOOSE i \in C10_Terminals : \A j \in C10_Terminals : i <= j

\* every bucket holds what the entries before the first terminal entry gave
C10_ClockStopped ==
  /\ \A s \in VALID_STATUSES :
       Get(time_in_status, s) = SecondsIn(s, C10_First - 1)
  /\ time_to_resolution_min =
         SecondsIn(OPEN, C10_First - 1) \div 60
       + SecondsIn(WORK_IN_PROGRESS, C10_First - 1) \div 60
       + SecondsIn(IN_REVIEW, C10_First - 1) \div 60

====
